---- MODULE Spec2Model ----
(***************************************************************************)
(* Model of the streaming arrival-detection core of ml_processor.py:       *)
(* PedestrianAnalyzer, ArrivalDetector and the TrafficAnalyzer frame loop  *)
(* (process_video / record_arrival / classify_vehicle_direction).          *)
(*                                                                         *)
(* Units.  Timestamps are integers in hundredths of a second; the values   *)
(* written to 'Time (s)' and 'Inter-Arrival (s)' by round(x, 1) are        *)
(* integers in tenths of a second.  Pixel coordinates are integers.        *)
(* A Python dict is a function whose DOMAIN is the dict's key set; the     *)
(* value None is the integer None.  A coordinate is an integer or the     *)
(* float NaN, which is a value apart from every number: arithmetic on it  *)
(* gives NaN and every comparison with it is false.                       *)
(***************************************************************************)
EXTENDS Integers, Sequences, FiniteSets, TLC

\* ------------------------------------------------------------------ bounds
NumTracks == 2
MaxFrames == 3
MaxLongFrames == 4
MaxSkips == 1
MaxDetCalls == 3
MaxSamples == 3
MaxRecords == 3
MaxFires == 2
MaxPairFrames == 2
MaxRows == 3

\* ------------------------------------------------------- program constants
None == -1
arrival_line == 400
frame_width == 1280
FrameStep == 4
SkipBlock == 200
PoserDuration == 800
PoserVariance == 100
PERSON == 0
VehicleClasses == {2, 3, 5, 7}
EntityTypes == {"EB Vehicles", "WB Vehicles", "Crossers", "Posers"}

Tracks == 1..NumTracks

\* float('nan') as a coordinate of a bbox
NaN == None - 1

\* a < b and a <= b on floats: false as soon as one side is NaN
FLess(a, b) == a # NaN /\ b # NaN /\ a < b
FLessEq(a, b) == a # NaN /\ b # NaN /\ a <= b

\* (a + b) / 2 on floats
FMid(a, b) == IF a = NaN \/ b = NaN THEN NaN ELSE (a + b) \div 2

\* a bounding box in to_ltrb() order: <<left, top, right, bottom>>
Box(cx, bottom) == <<cx - 10, bottom - 40, cx + 10, bottom>>

\* ------------------------------------------------------------ dict helpers
EmptyDict == [k \in {} |-> None]

DictSet(d, k, v) == [x \in (DOMAIN d) \cup {k} |-> IF x = k THEN v ELSE d[x]]

RECURSIVE SeqSum(_)
SeqSum(s) == IF s = <<>> THEN 0 ELSE Head(s) + SeqSum(Tail(s))

\* round(x, 1) of a value in hundredths, result in tenths (ties to even)
Round1(h) ==
    LET q == h \div 10
        r == h % 10
    IN  IF r < 5 THEN q
        ELSE IF r > 5 THEN q + 1
        ELSE IF q % 2 = 0 THEN q ELSE q + 1

\* ------------------------------------------------------ PedestrianAnalyzer
CenterX(bbox) == FMid(bbox[1], bbox[3])
CenterY(bbox) == FMid(bbox[2], bbox[4])

\* mutant of PedUpdate: a sample equal to the latest one is not appended
PedUpdateDedupe(peds, track_id, bbox, timestamp) ==
    IF track_id \notin DOMAIN peds
    THEN DictSet(peds, track_id,
                 [start_time |-> timestamp,
                  positions |-> << <<CenterX(bbox), CenterY(bbox)>> >>,
                  first_bbox |-> bbox])
    ELSE IF peds[track_id].positions[Len(peds[track_id].positions)]
               = <<CenterX(bbox), CenterY(bbox)>>
    THEN peds
    ELSE [peds EXCEPT ![track_id].positions =
              Append(@, <<CenterX(bbox), CenterY(bbox)>>)]

\* mutant of PedUpdate: every update restarts the track's start_time
PedUpdateRestart(peds, track_id, bbox, timestamp) ==
    IF track_id \notin DOMAIN peds
    THEN DictSet(peds, track_id,
                 [start_time |-> timestamp,
                  positions |-> << <<CenterX(bbox), CenterY(bbox)>> >>,
                  first_bbox |-> bbox])
    ELSE [peds EXCEPT ![track_id].positions =
              Append(@, <<CenterX(bbox), CenterY(bbox)>>),
                      ![track_id].start_time = timestamp]

\* PedestrianAnalyzer.update: the new value of self.pedestrians
PedUpdate(peds, track_id, bbox, timestamp) ==
    IF track_id \notin DOMAIN peds
    THEN DictSet(peds, track_id,
                 [start_time |-> timestamp,
                  positions |-> << <<CenterX(bbox), CenterY(bbox)>> >>,
                  first_bbox |-> bbox])
    ELSE [peds EXCEPT ![track_id].positions =
              Append(@, <<CenterX(bbox), CenterY(bbox)>>)]

\* np.var(xs) < limit, for a non-empty list of integers:
\* mean((x - mean)^2) < limit  <=>  sum((n*x - S)^2) < limit * n^3
VarLess(xs, limit) ==
    LET n == Len(xs)
        S == SeqSum(xs)
        dev == [i \in 1..n |-> (n * xs[i] - S) * (n * xs[i] - S)]
    IN  SeqSum(dev) < limit * n * n * n

\* movement_variance < 100 as computed in classify; np.var of a list that
\* holds a NaN is NaN
LowMovement(positions) ==
    IF Len(positions) > 1
    THEN /\ \A i \in 1..Len(positions) : positions[i][1] # NaN
         /\ VarLess([i \in 1..Len(positions) |-> positions[i][1]],
                    PoserVariance)
    ELSE 0 < PoserVariance

\* mutant of PedClassify: the latest sample is left out of the variance
PedClassifyWithoutLast(peds, track_id, timestamp) ==
    IF track_id \notin DOMAIN peds
    THEN "Crossers"
    ELSE LET data == peds[track_id]
             duration == timestamp - data.start_time
             earlier == SubSeq(data.positions, 1, Len(data.positions) - 1)
         IN  IF duration > PoserDuration /\ LowMovement(earlier)
             THEN "Posers"
             ELSE "Crossers"

\* mutant of PedClassify: a track without history is taken for a Poser
PedClassifyUnknownPoser(peds, track_id, timestamp) ==
    IF track_id \notin DOMAIN peds
    THEN "Posers"
    ELSE LET data == peds[track_id]
             duration == timestamp - data.start_time
         IN  IF duration > PoserDuration /\ LowMovement(data.positions)
             THEN "Posers"
             ELSE "Crossers"

\* mutant of PedClassify: duration >= 8.0 instead of duration > 8.0
PedClassifyInclusive(peds, track_id, timestamp) ==
    IF track_id \notin DOMAIN peds
    THEN "Crossers"
    ELSE LET data == peds[track_id]
             duration == timestamp - data.start_time
         IN  IF duration >= PoserDuration /\ LowMovement(data.positions)
             THEN "Posers"
             ELSE "Crossers"

\* PedestrianAnalyzer.classify
PedClassify(peds, track_id, timestamp) ==
    IF track_id \notin DOMAIN peds
    THEN "Crossers"
    ELSE LET data == peds[track_id]
             duration == timestamp - data.start_time
         IN  IF duration > PoserDuration /\ LowMovement(data.positions)
             THEN "Posers"
             ELSE "Crossers"

\* --------------------------------------------------------- ArrivalDetector
\* mutant of CheckArrival: a fired track is not added to recorded_arrivals
CheckArrivalNoMark(recorded, last_pos, track_id, bbox, ts) ==
    LET bottom_y == bbox[4]
    IN  IF track_id \in recorded
        THEN [crossed |-> FALSE, timestamp |-> None, recorded |-> recorded,
              last_pos |-> last_pos]
        ELSE IF track_id \in DOMAIN last_pos
                /\ FLess(last_pos[track_id], arrival_line)
                /\ FLessEq(arrival_line, bottom_y)
        THEN [crossed |-> TRUE, timestamp |-> ts, recorded |-> recorded,
              last_pos |-> last_pos]
        ELSE [crossed |-> FALSE, timestamp |-> None, recorded |-> recorded,
              last_pos |-> DictSet(last_pos, track_id, bottom_y)]

\* mutant of CheckArrival: prev_y <= line instead of prev_y < line
CheckArrivalLoose(recorded, last_pos, track_id, bbox, ts) ==
    LET bottom_y == bbox[4]
    IN  IF track_id \in recorded
        THEN [crossed |-> FALSE, timestamp |-> None, recorded |-> recorded,
              last_pos |-> last_pos]
        ELSE IF track_id \in DOMAIN last_pos
                /\ FLessEq(last_pos[track_id], arrival_line)
                /\ FLessEq(arrival_line, bottom_y)
        THEN [crossed |-> TRUE, timestamp |-> ts,
              recorded |-> recorded \cup {track_id}, last_pos |-> last_pos]
        ELSE [crossed |-> FALSE, timestamp |-> None, recorded |-> recorded,
              last_pos |-> DictSet(last_pos, track_id, bottom_y)]

\* mutant of CheckArrival: a recorded track seen above the line is re-armed
CheckArrivalRearm(recorded, last_pos, track_id, bbox, ts) ==
    LET bottom_y == bbox[4]
    IN  IF track_id \in recorded
        THEN [crossed |-> FALSE, timestamp |-> None,
              recorded |-> IF bottom_y < arrival_line
                           THEN recorded \ {track_id} ELSE recorded,
              last_pos |-> last_pos]
        ELSE IF track_id \in DOMAIN last_pos
                /\ FLess(last_pos[track_id], arrival_line)
                /\ FLessEq(arrival_line, bottom_y)
        THEN [crossed |-> TRUE, timestamp |-> ts,
              recorded |-> recorded \cup {track_id}, last_pos |-> last_pos]
        ELSE [crossed |-> FALSE, timestamp |-> None, recorded |-> recorded,
              last_pos |-> DictSet(last_pos, track_id, bottom_y)]

\* mutant of CheckArrival: a track without a previous position counts as
\* coming from the top of the frame
CheckArrivalFirstFires(recorded, last_pos, track_id, bbox, ts) ==
    LET bottom_y == bbox[4]
        prev_y == IF track_id \in DOMAIN last_pos THEN last_pos[track_id]
                  ELSE 0
    IN  IF track_id \in recorded
        THEN [crossed |-> FALSE, timestamp |-> None, recorded |-> recorded,
              last_pos |-> last_pos]
        ELSE IF FLess(prev_y, arrival_line) /\ FLessEq(arrival_line, bottom_y)
        THEN [crossed |-> TRUE, timestamp |-> ts,
              recorded |-> recorded \cup {track_id}, last_pos |-> last_pos]
        ELSE [crossed |-> FALSE, timestamp |-> None, recorded |-> recorded,
              last_pos |-> DictSet(last_pos, track_id, bottom_y)]

\* mutant of CheckArrival: the position is stored before the recorded check
CheckArrivalStoreFirst(recorded, last_pos, track_id, bbox, ts) ==
    LET bottom_y == bbox[4]
    IN  IF track_id \in recorded
        THEN [crossed |-> FALSE, timestamp |-> None, recorded |-> recorded,
              last_pos |-> DictSet(last_pos, track_id, bottom_y)]
        ELSE IF track_id \in DOMAIN last_pos
                /\ FLess(last_pos[track_id], arrival_line)
                /\ FLessEq(arrival_line, bottom_y)
        THEN [crossed |-> TRUE, timestamp |-> ts,
              recorded |-> recorded \cup {track_id}, last_pos |-> last_pos]
        ELSE [crossed |-> FALSE, timestamp |-> None, recorded |-> recorded,
              last_pos |-> DictSet(last_pos, track_id, bottom_y)]

\* mutant of CheckArrival: the position table holds the latest track only
CheckArrivalSingleSlot(recorded, last_pos, track_id, bbox, ts) ==
    LET bottom_y == bbox[4]
    IN  IF track_id \in recorded
        THEN [crossed |-> FALSE, timestamp |-> None, recorded |-> recorded,
              last_pos |-> last_pos]
        ELSE IF track_id \in DOMAIN last_pos
                /\ FLess(last_pos[track_id], arrival_line)
                /\ FLessEq(arrival_line, bottom_y)
        THEN [crossed |-> TRUE, timestamp |-> ts,
              recorded |-> recorded \cup {track_id}, last_pos |-> last_pos]
        ELSE [crossed |-> FALSE, timestamp |-> None, recorded |-> recorded,
              last_pos |-> [k \in {track_id} |-> bottom_y]]

\* ArrivalDetector.check_arrival: the returned flag and the new detector state
CheckArrival(recorded, last_pos, track_id, bbox, ts) ==
    LET bottom_y == bbox[4]
    IN  IF track_id \in recorded
        THEN [crossed |-> FALSE, timestamp |-> None, recorded |-> recorded,
              last_pos |-> last_pos]
        ELSE IF track_id \in DOMAIN last_pos
                /\ FLess(last_pos[track_id], arrival_line)
                /\ FLessEq(arrival_line, bottom_y)
        THEN [crossed |-> TRUE, timestamp |-> ts,
              recorded |-> recorded \cup {track_id}, last_pos |-> last_pos]
        ELSE [crossed |-> FALSE, timestamp |-> None, recorded |-> recorded,
              last_pos |-> DictSet(last_pos, track_id, bottom_y)]

\* --------------------------------------------------------- TrafficAnalyzer
\* mutant of VehicleDirection: >= in the frame-half fallback
VehicleDirectionInclusive(prev_pos, track_id, bbox) ==
    LET center_x == CenterX(bbox)
    IN  IF track_id \in DOMAIN prev_pos
        THEN (IF center_x > prev_pos[track_id] THEN "EB" ELSE "WB")
        ELSE (IF 2 * center_x >= frame_width THEN "EB" ELSE "WB")

\* classify_vehicle_direction: the returned direction
VehicleDirection(prev_pos, track_id, bbox) ==
    LET center_x == CenterX(bbox)
    IN  IF track_id \in DOMAIN prev_pos
        THEN (IF center_x > prev_pos[track_id] THEN "EB" ELSE "WB")
        ELSE (IF 2 * center_x > frame_width THEN "EB" ELSE "WB")

\* classify_vehicle_direction: the new value of self.prev_positions
VehiclePrevPositions(prev_pos, track_id, bbox) ==
    DictSet(prev_pos, track_id, CenterX(bbox))

\* mutant of StripS: the behavior is used as it is
StripNothing(behavior) == behavior

\* 'Bs' -> 'B' (behavior[:-1])
StripS(behavior) == IF behavior = "Posers" THEN "Poser" ELSE "Crosser"

\* mutant of ArrivalKind: every class but Person is taken for a vehicle
ArrivalKindElseVehicle(peds, prev_pos, track_id, class_id, bbox, timestamp) ==
    IF class_id # PERSON
    THEN LET direction == VehicleDirection(prev_pos, track_id, bbox)
         IN  [kind |-> "vehicle",
              entity_type |-> IF direction = "EB" THEN "EB Vehicles"
                              ELSE "WB Vehicles",
              type_dir |-> direction]
    ELSE LET behavior == PedClassify(peds, track_id, timestamp)
         IN  [kind |-> "person", entity_type |-> behavior,
              type_dir |-> StripS(behavior)]

\* mutant of ArrivalKind: every class but a vehicle class is taken for a
\* pedestrian
ArrivalKindElsePerson(peds, prev_pos, track_id, class_id, bbox, timestamp) ==
    IF class_id \in VehicleClasses
    THEN LET direction == VehicleDirection(prev_pos, track_id, bbox)
         IN  [kind |-> "vehicle",
              entity_type |-> IF direction = "EB" THEN "EB Vehicles"
                              ELSE "WB Vehicles",
              type_dir |-> direction]
    ELSE LET behavior == PedClassify(peds, track_id, timestamp)
         IN  [kind |-> "person", entity_type |-> behavior,
              type_dir |-> StripS(behavior)]

\* record_arrival: entity_type / type_dir for a class; kind "none" = return
ArrivalKind(peds, prev_pos, track_id, class_id, bbox, timestamp) ==
    IF class_id \in VehicleClasses
    THEN LET direction == VehicleDirection(prev_pos, track_id, bbox)
         IN  [kind |-> "vehicle",
              entity_type |-> IF direction = "EB" THEN "EB Vehicles"
                              ELSE "WB Vehicles",
              type_dir |-> direction]
    ELSE IF class_id = PERSON
    THEN LET behavior == PedClassify(peds, track_id, timestamp)
         IN  [kind |-> "person", entity_type |-> behavior,
              type_dir |-> StripS(behavior)]
    ELSE [kind |-> "none", entity_type |-> "", type_dir |-> ""]

\* mutant of InterArrival: time since the latest arrival of any category
InterArrivalAnyCategory(last_times, entity_type, timestamp) ==
    LET known == {e \in DOMAIN last_times : last_times[e] # None}
    IN  IF known # {}
        THEN timestamp
             - (CHOOSE m \in {last_times[e] : e \in known} :
                    \A e \in known : last_times[e] <= m)
        ELSE 0

\* mutant of InterArrival: the difference is taken the other way round
InterArrivalReversed(last_times, entity_type, timestamp) ==
    IF last_times[entity_type] # None
    THEN last_times[entity_type] - timestamp
    ELSE 0

\* record_arrival: inter_arrival before rounding (hundredths)
InterArrival(last_times, entity_type, timestamp) ==
    IF last_times[entity_type] # None
    THEN timestamp - last_times[entity_type]
    ELSE 0

\* mutant of ArrivalData: the service time is written as a number
ArrivalDataZeroService(log, last_times, entity_type, type_dir, timestamp) ==
    [ID |-> Len(log) + 1,
     Time |-> Round1(timestamp),
     Entity |-> entity_type,
     TypeDir |-> type_dir,
     InterArrival |-> Round1(InterArrival(last_times, entity_type, timestamp)),
     ServiceTime |-> "0.0"]

\* mutant of ArrivalData: ID counted from 0
ArrivalDataZeroBased(log, last_times, entity_type, type_dir, timestamp) ==
    [ID |-> Len(log),
     Time |-> Round1(timestamp),
     Entity |-> entity_type,
     TypeDir |-> type_dir,
     InterArrival |-> Round1(InterArrival(last_times, entity_type, timestamp)),
     ServiceTime |-> "-"]

\* record_arrival: the arrival_data dict
ArrivalData(log, last_times, entity_type, type_dir, timestamp) ==
    [ID |-> Len(log) + 1,
     Time |-> Round1(timestamp),
     Entity |-> entity_type,
     TypeDir |-> type_dir,
     InterArrival |-> Round1(InterArrival(last_times, entity_type, timestamp)),
     ServiceTime |-> "-"]

\* mutant of AppendArrival: eastbound vehicles are listed first
InsertEastboundFirst(log, rec) ==
    IF rec.Entity = "EB Vehicles" THEN <<rec>> \o log ELSE Append(log, rec)

\* mutant of AppendArrival: the new record is put in front
PrependArrival(log, rec) == <<rec>> \o log

\* record_arrival: the new value of self.arrivals
AppendArrival(log, rec) == Append(log, rec)

\* mutant of RecordArrival: the table keeps a category's first arrival time
RecordArrivalFirstTime(log, last_times, prev_pos, peds, track_id, class_id, bbox, ts) ==
    LET k == ArrivalKind(peds, prev_pos, track_id, class_id, bbox, ts)
    IN  IF k.kind = "none"
        THEN [arrivals |-> log, last_arrival_times |-> last_times,
              prev_positions |-> prev_pos]
        ELSE [arrivals |->
                  AppendArrival(log, ArrivalData(log, last_times, k.entity_type,
                                                 k.type_dir, ts)),
              last_arrival_times |->
                  IF last_times[k.entity_type] = None
                  THEN [last_times EXCEPT ![k.entity_type] = ts]
                  ELSE last_times,
              prev_positions |->
                  IF k.kind = "vehicle"
                  THEN VehiclePrevPositions(prev_pos, track_id, bbox)
                  ELSE prev_pos]

\* mutant of RecordArrival: the center_x of a pedestrian is stored as well
RecordArrivalStoreAll(log, last_times, prev_pos, peds, track_id, class_id, bbox, ts) ==
    LET k == ArrivalKind(peds, prev_pos, track_id, class_id, bbox, ts)
    IN  IF k.kind = "none"
        THEN [arrivals |-> log, last_arrival_times |-> last_times,
              prev_positions |-> prev_pos]
        ELSE [arrivals |->
                  AppendArrival(log, ArrivalData(log, last_times, k.entity_type,
                                                 k.type_dir, ts)),
              last_arrival_times |->
                  [last_times EXCEPT ![k.entity_type] = ts],
              prev_positions |->
                  VehiclePrevPositions(prev_pos, track_id, bbox)]

\* record_arrival: the new values of arrivals, last_arrival_times and
\* prev_positions
RecordArrival(log, last_times, prev_pos, peds, track_id, class_id, bbox, ts) ==
    LET k == ArrivalKind(peds, prev_pos, track_id, class_id, bbox, ts)
    IN  IF k.kind = "none"
        THEN [arrivals |-> log, last_arrival_times |-> last_times,
              prev_positions |-> prev_pos]
        ELSE [arrivals |->
                  AppendArrival(log, ArrivalData(log, last_times, k.entity_type,
                                                 k.type_dir, ts)),
              last_arrival_times |->
                  [last_times EXCEPT ![k.entity_type] = ts],
              prev_positions |->
                  IF k.kind = "vehicle"
                  THEN VehiclePrevPositions(prev_pos, track_id, bbox)
                  ELSE prev_pos]

\* ================================================================== state
VARIABLES
    pc,                  \* process_video: "loop", "done" or "failed"
    frame_count,         \* TrafficAnalyzer.frame_count
    tracks,              \* tracks of the current frame still to be processed
    pedestrians,         \* PedestrianAnalyzer.pedestrians
    recorded_arrivals,   \* ArrivalDetector.recorded_arrivals
    last_positions,      \* ArrivalDetector.last_positions
    arrivals,            \* TrafficAnalyzer.arrivals
    last_arrival_times,  \* TrafficAnalyzer.last_arrival_times
    prev_positions,      \* TrafficAnalyzer.prev_positions
    fired,               \* history: per track, number of crossed=True returns
    emitted,             \* history: per record, the update that produced it
    last_seen,           \* history: per track, bbox of its latest observation
    reuse,               \* history: per track, reappearance after an arrival
    last_call,           \* history: the latest API call and what it returned
    obs,                 \* history: per track, bottoms passed to check_arrival
    files,               \* merge_team_data: the four tables read from the files
    merged               \* merge_team_data: what the merge returned and wrote

core == <<pedestrians, recorded_arrivals, last_positions, arrivals,
          last_arrival_times, prev_positions>>
driver == <<pc, frame_count, tracks>>
history == <<fired, emitted, last_seen, reuse, last_call, obs>>
vars == <<pc, frame_count, tracks, pedestrians, recorded_arrivals,
          last_positions, arrivals, last_arrival_times, prev_positions,
          fired, emitted, last_seen, reuse, last_call, obs, files, merged>>
merging == <<files, merged>>

NoCall == [op |-> "none"]

\* merge_team_data has not run
NotMerged == [returned |-> "none", output |-> <<>>]

\* the state after TrafficAnalyzer.__init__ (and the classes' __init__)
Init ==
    /\ pc = "loop"
    /\ frame_count = 0
    /\ tracks = <<>>
    /\ pedestrians = EmptyDict
    /\ recorded_arrivals = {}
    /\ last_positions = EmptyDict
    /\ arrivals = <<>>
    /\ last_arrival_times = [e \in EntityTypes |-> None]
    /\ prev_positions = EmptyDict
    /\ fired = [t \in Tracks |-> 0]
    /\ emitted = <<>>
    /\ last_seen = EmptyDict
    /\ reuse = [t \in Tracks |-> [phase |-> "none", start |-> None]]
    /\ last_call = NoCall
    /\ obs = [t \in Tracks |-> <<>>]
    /\ files = <<<<>>, <<>>, <<>>, <<>>>>
    /\ merged = NotMerged

\* ------------------------------------------------------- frame-loop inputs
InputClasses == {PERSON, 2}
\* above the line on the left; below it slightly to the right; below it on
\* the right half of the frame
InputBoxes == {Box(300, 390), Box(310, 420), Box(700, 420)}

\* what the tracker reports for one track in one frame
TrackInputs ==
    [confirmed : {TRUE}, class_id : InputClasses, bbox : InputBoxes]
    \cup {[confirmed |-> FALSE, class_id |-> PERSON, bbox |-> Box(300, 390)]}

\* the inputs of the longer video: confirmed tracks above and below the line
LongInputs ==
    [confirmed : {TRUE}, class_id : InputClasses,
     bbox : {Box(300, 390), Box(310, 420)}]

\* a box whose coordinates are all NaN, and a box without coordinates
NaNBox == <<NaN, NaN, NaN, NaN>>
NoBox == <<>>

\* the inputs of a video on which the tracker also reports malformed boxes
FaultInputs ==
    [confirmed : {TRUE}, class_id : InputClasses,
     bbox : {Box(300, 390), Box(310, 420), NaNBox}]
    \cup {[confirmed |-> TRUE, class_id |-> PERSON, bbox |-> NoBox]}

\* orders in which the tracker may list n distinct tracks
TrackOrders(n) ==
    {s \in [1..n -> Tracks] : \A i, j \in 1..n : i # j => s[i] # s[j]}

timestamp == frame_count * FrameStep

FramesRead == frame_count % SkipBlock
BlocksSkipped == frame_count \div SkipBlock

ConfirmedIds(list) ==
    {list[i].track_id : i \in {j \in 1..Len(list) : list[j].confirmed}}

\* history: what happened to a track after its arrival fired.  phase:
\*   "none"    nothing yet            "up"      seen above the line again
\*   "again"   then at/below it       "gone"    missing from a frame
\*   "above"   back, above the line   "crossed" then at/below the line
\* start: the start_time of its pedestrian history when it went missing
NoReuse == [phase |-> "none", start |-> None]

ReuseGone(present) ==
    [t \in Tracks |->
        IF fired[t] > 0 /\ t \notin present
           /\ reuse[t].phase \in {"none", "up", "again"}
        THEN [phase |-> "gone",
              start |-> IF t \in DOMAIN pedestrians
                        THEN pedestrians[t].start_time ELSE None]
        ELSE reuse[t]]

ReuseSeen(r, has_fired, bottom_y) ==
    IF r.phase = "none" /\ has_fired /\ FLess(bottom_y, arrival_line)
    THEN [r EXCEPT !.phase = "up"]
    ELSE IF r.phase = "up" /\ FLessEq(arrival_line, bottom_y)
    THEN [r EXCEPT !.phase = "again"]
    ELSE IF r.phase = "gone" /\ FLess(bottom_y, arrival_line)
    THEN [r EXCEPT !.phase = "above"]
    ELSE IF r.phase = "above" /\ FLessEq(arrival_line, bottom_y)
    THEN [r EXCEPT !.phase = "crossed"]
    ELSE r

\* process_video: cap.read() returns a frame and the tracker at most
\* maxTracks tracks, each as one of inputs; at most maxFrames frames are read
Frame(maxTracks, maxFrames, inputs) ==
    /\ pc = "loop"
    /\ tracks = <<>>
    /\ FramesRead < maxFrames
    /\ \E n \in 0..maxTracks :
       \E ids \in TrackOrders(n) :
       \E ins \in [1..n -> inputs] :
          LET list == [i \in 1..n |->
                          [track_id |-> ids[i],
                           confirmed |-> ins[i].confirmed,
                           class_id |-> ins[i].class_id,
                           bbox |-> ins[i].bbox]]
          IN  /\ tracks' = list
              /\ reuse' = ReuseGone(ConfirmedIds(list))
    /\ frame_count' = frame_count + 1
    /\ UNCHANGED <<pc, core, fired, emitted, last_seen, last_call, obs>>
    /\ UNCHANGED merging

ReadFrame == Frame(NumTracks, MaxFrames, TrackInputs)

\* a frame in which the tracker reports at most one track
ReadOne == Frame(1, MaxLongFrames, LongInputs)

\* process_video: SkipBlock consecutive frames without any confirmed track
SkipFrames ==
    /\ pc = "loop"
    /\ tracks = <<>>
    /\ BlocksSkipped < MaxSkips
    /\ frame_count' = frame_count + SkipBlock
    /\ reuse' = ReuseGone({})
    /\ UNCHANGED <<pc, tracks, core, fired, emitted, last_seen, last_call, obs>>
    /\ UNCHANGED merging

\* update and check_arrival index the bbox: a box with fewer than four
\* coordinates raises there, before anything is stored
Raises(bbox) == Len(bbox) < 4

\* process_video: the body of 'for track in tracks' for the next track.  An
\* exception raised in it is caught nowhere in process_video: the loop is
\* left, main prints the error and exits without exporting the log
ProcessTrack ==
    /\ pc = "loop"
    /\ tracks # <<>>
    /\ LET track == Head(tracks)
           track_id == track.track_id
           bbox == track.bbox
           class_id == track.class_id
           raised == track.confirmed /\ Raises(bbox)
       IN  /\ tracks' = IF raised THEN <<>> ELSE Tail(tracks)
           /\ pc' = IF raised THEN "failed" ELSE pc
           /\ IF ~track.confirmed \/ raised
              THEN UNCHANGED <<core, history>>
              ELSE LET peds == IF class_id = PERSON
                               THEN PedUpdate(pedestrians, track_id, bbox,
                                              timestamp)
                               ELSE pedestrians
                       ca == CheckArrival(recorded_arrivals, last_positions,
                                          track_id, bbox, timestamp)
                       ra == IF ca.crossed
                             THEN RecordArrival(arrivals, last_arrival_times,
                                                prev_positions, peds, track_id,
                                                class_id, bbox, ca.timestamp)
                             ELSE [arrivals |-> arrivals,
                                   last_arrival_times |-> last_arrival_times,
                                   prev_positions |-> prev_positions]
                   IN  /\ pedestrians' = peds
                       /\ recorded_arrivals' = ca.recorded
                       /\ last_positions' = ca.last_pos
                       /\ arrivals' = ra.arrivals
                       /\ last_arrival_times' = ra.last_arrival_times
                       /\ prev_positions' = ra.prev_positions
                       /\ fired' = IF ca.crossed
                                   THEN [fired EXCEPT ![track_id] = @ + 1]
                                   ELSE fired
                       /\ emitted' =
                             IF Len(ra.arrivals) > Len(arrivals)
                             THEN Append(emitted,
                                   [track_id |-> track_id,
                                    class_id |-> class_id,
                                    timestamp |-> timestamp,
                                    center_x |-> CenterX(bbox),
                                    seen_before |-> track_id \in DOMAIN last_seen,
                                    prev_x |-> IF track_id \in DOMAIN last_seen
                                               THEN CenterX(last_seen[track_id])
                                               ELSE None])
                             ELSE emitted
                       /\ last_seen' = DictSet(last_seen, track_id, bbox)
                       /\ reuse' = [reuse EXCEPT
                                       ![track_id] =
                                           ReuseSeen(@, fired[track_id] > 0,
                                                     bbox[4])]
                       /\ UNCHANGED <<last_call, obs>>
    /\ UNCHANGED frame_count
    /\ UNCHANGED merging

\* process_video: cap.read() fails, the loop ends and the log is returned
EndOfVideo ==
    /\ pc = "loop"
    /\ tracks = <<>>
    /\ pc' = "done"
    /\ UNCHANGED <<frame_count, tracks, core, history>>
    /\ UNCHANGED merging

Next == ReadFrame \/ SkipFrames \/ ProcessTrack \/ EndOfVideo

Spec == Init /\ [][Next]_vars

\* the same loop over a video with malformed boxes
ReadFaulty == Frame(NumTracks, MaxFrames, FaultInputs)

NextFault == ReadFaulty \/ SkipFrames \/ ProcessTrack \/ EndOfVideo

FaultSpec == Init /\ [][NextFault]_vars

\* the inputs of a video of one walker: a Person above the line, a Person
\* below it far to the right, and a vehicle label
WalkInputs ==
    {[confirmed |-> TRUE, class_id |-> PERSON, bbox |-> Box(300, 390)],
     [confirmed |-> TRUE, class_id |-> PERSON, bbox |-> Box(700, 420)],
     [confirmed |-> TRUE, class_id |-> 2, bbox |-> Box(310, 420)]}

ReadWalk == Frame(1, MaxFrames, WalkInputs)

NextWalk == ReadWalk \/ SkipFrames \/ ProcessTrack \/ EndOfVideo

WalkSpec == Init /\ [][NextWalk]_vars

\* the inputs of a video of vehicles side by side, with tentative tracks
PairInputs ==
    {[confirmed |-> TRUE, class_id |-> 2, bbox |-> Box(300, 390)],
     [confirmed |-> TRUE, class_id |-> 2, bbox |-> Box(310, 420)],
     [confirmed |-> TRUE, class_id |-> 2, bbox |-> Box(700, 420)],
     [confirmed |-> FALSE, class_id |-> PERSON, bbox |-> Box(700, 420)]}

ReadPair == Frame(NumTracks, MaxPairFrames, PairInputs)

NextPair == ReadPair \/ ProcessTrack \/ EndOfVideo

PairSpec == Init /\ [][NextPair]_vars

\* the inputs of a video on which the tracker also reports a class label
\* that is neither Person nor a vehicle class, one track a frame
LabelInputs ==
    [confirmed : {TRUE}, class_id : {PERSON, PERSON + 1, 2},
     bbox : {Box(300, 390), Box(310, 420)}]

ReadLabel == Frame(1, MaxLongFrames, LabelInputs)

NextLabel == ReadLabel \/ ProcessTrack \/ EndOfVideo

LabelSpec == Init /\ [][NextLabel]_vars

\* the inputs of a video of vehicles that reach the line side by side or
\* one after the other, with stretches of empty road
ConvoyInputs ==
    [confirmed : {TRUE}, class_id : {2},
     bbox : {Box(300, 390), Box(310, 420)}]

ReadConvoy == Frame(NumTracks, MaxFrames, ConvoyInputs)

NextConvoy == ReadConvoy \/ SkipFrames \/ ProcessTrack \/ EndOfVideo

ConvoySpec == Init /\ [][NextConvoy]_vars

\* the same loop over a longer video with at most one track per frame
NextLong == ReadOne \/ SkipFrames \/ ProcessTrack \/ EndOfVideo

LongSpec == Init /\ [][NextLong]_vars

TypeOK ==
    /\ pc \in {"loop", "done", "failed"}
    /\ recorded_arrivals \subseteq Tracks
    /\ DOMAIN last_positions \subseteq Tracks
    /\ DOMAIN pedestrians \subseteq Tracks
    /\ DOMAIN prev_positions \subseteq Tracks
    /\ Len(emitted) = Len(arrivals)

\* ============================================== the classes taken alone
RECURSIVE TotalLen(_, _)
TotalLen(f, n) == IF n = 0 THEN 0 ELSE Len(f[n]) + TotalLen(f, n - 1)

RECURSIVE TotalSamples(_, _)
TotalSamples(peds, n) ==
    IF n = 0 THEN 0
    ELSE (IF n \in DOMAIN peds THEN Len(peds[n].positions) ELSE 0)
         + TotalSamples(peds, n - 1)

\* ---------------------------------------------- ArrivalDetector on its own
DetBottoms == {350, 380, 390, 400, 420, 450, 480}

\* mutant of DetectorReset: reset forgets the positions only
DetectorResetPositionsOnly ==
    [recorded |-> recorded_arrivals, last_pos |-> EmptyDict]

\* ArrivalDetector.reset: the new detector state
DetectorReset == [recorded |-> {}, last_pos |-> EmptyDict]

\* a call of check_arrival
DetCheck ==
    /\ TotalLen(obs, NumTracks) < MaxDetCalls
    /\ \E track_id \in Tracks, y \in DetBottoms :
          LET ca == CheckArrival(recorded_arrivals, last_positions, track_id,
                                 Box(300, y), timestamp)
          IN  /\ recorded_arrivals' = ca.recorded
              /\ last_positions' = ca.last_pos
              /\ obs' = [obs EXCEPT ![track_id] =
                            Append(@, [bottom |-> y, crossed |-> ca.crossed])]
              /\ fired' = IF ca.crossed
                          THEN [fired EXCEPT ![track_id] = @ + 1]
                          ELSE fired
              /\ last_call' = [op |-> "check_arrival", track_id |-> track_id,
                               bottom |-> y, crossed |-> ca.crossed,
                               timestamp |-> ca.timestamp]
    /\ UNCHANGED <<driver, pedestrians, arrivals, last_arrival_times,
                   prev_positions, emitted, last_seen, reuse>>
    /\ UNCHANGED merging

\* a call of reset; no more resets once MaxFires crossings have fired
DetReset ==
    /\ last_call # NoCall
    /\ SeqSum(fired) < MaxFires
    /\ recorded_arrivals' = DetectorReset.recorded
    /\ last_positions' = DetectorReset.last_pos
    /\ obs' = [t \in Tracks |-> <<>>]
    /\ last_call' = [op |-> "reset"]
    /\ UNCHANGED <<driver, pedestrians, arrivals, last_arrival_times,
                   prev_positions, fired, emitted, last_seen, reuse>>
    /\ UNCHANGED merging

NextDetector == DetCheck \/ DetReset

DetectorSpec == Init /\ [][NextDetector]_vars

\* ------------------------------------------- PedestrianAnalyzer on its own
PedXs == {300, 310, 320}
PedTimes == {100, 900, 904}

\* a call of update
ClsUpdate ==
    /\ TotalSamples(pedestrians, NumTracks) < MaxSamples
    /\ \E track_id \in Tracks, x \in PedXs, ts \in PedTimes :
          /\ pedestrians' = PedUpdate(pedestrians, track_id, Box(x, 390), ts)
          /\ last_call' = [op |-> "update", track_id |-> track_id,
                           timestamp |-> ts]
    /\ UNCHANGED <<driver, recorded_arrivals, last_positions, arrivals,
                   last_arrival_times, prev_positions, fired, emitted,
                   last_seen, reuse, obs>>
    /\ UNCHANGED merging

\* a call of classify
ClsClassify ==
    /\ \E track_id \in Tracks, now \in PedTimes :
          last_call' = [op |-> "classify", track_id |-> track_id,
                        timestamp |-> now,
                        result |-> PedClassify(pedestrians, track_id, now)]
    /\ UNCHANGED <<driver, core, fired, emitted, last_seen, reuse, obs>>
    /\ UNCHANGED merging

NextClassify == ClsUpdate \/ ClsClassify

ClassifySpec == Init /\ [][NextClassify]_vars

\* ------------------------------- classify_vehicle_direction on its own
DirXs == {300, 350, 640, 700}

\* a call of classify_vehicle_direction
DirClassify ==
    /\ \E track_id \in Tracks, x \in DirXs :
          /\ last_call' =
                [op |-> "classify_vehicle_direction", track_id |-> track_id,
                 center_x |-> x,
                 had_prev |-> track_id \in DOMAIN prev_positions,
                 prev_x |-> IF track_id \in DOMAIN prev_positions
                            THEN prev_positions[track_id] ELSE None,
                 result |-> VehicleDirection(prev_positions, track_id,
                                             Box(x, 420))]
          /\ prev_positions' =
                VehiclePrevPositions(prev_positions, track_id, Box(x, 420))
    /\ UNCHANGED <<driver, pedestrians, recorded_arrivals, last_positions,
                   arrivals, last_arrival_times, fired, emitted, last_seen,
                   reuse, obs>>
    /\ UNCHANGED merging

NextDirection == DirClassify

DirectionSpec == Init /\ [][NextDirection]_vars

\* ---------------------------------------------- record_arrival on its own
\* record_arrival never consults the detector: one track_id drives it
RecTracks == {1}

RecInputs ==
    {[class_id |-> PERSON, bbox |-> Box(310, 420)],
     [class_id |-> 2, bbox |-> Box(310, 420)],
     [class_id |-> 2, bbox |-> Box(700, 420)]}

\* the clock of the frame loop moves on by one frame
RecTick ==
    /\ FramesRead < MaxFrames
    /\ frame_count' = frame_count + 1
    /\ UNCHANGED <<pc, tracks, core, history>>
    /\ UNCHANGED merging

\* the body of 'for track in tracks' with the detector's answer left open:
\* update for a Person, then record_arrival if the crossing is said to fire
RecStep ==
    /\ Len(arrivals) < MaxRecords
    /\ TotalSamples(pedestrians, NumTracks) < MaxSamples
    /\ \E track_id \in RecTracks, in \in RecInputs, crossed \in BOOLEAN :
          LET class_id == in.class_id
              bbox == in.bbox
              peds == IF class_id = PERSON
                      THEN PedUpdate(pedestrians, track_id, bbox, timestamp)
                      ELSE pedestrians
              ra == IF crossed
                    THEN RecordArrival(arrivals, last_arrival_times,
                                       prev_positions, peds, track_id,
                                       class_id, bbox, timestamp)
                    ELSE [arrivals |-> arrivals,
                          last_arrival_times |-> last_arrival_times,
                          prev_positions |-> prev_positions]
          IN  /\ crossed \/ class_id = PERSON
              /\ pedestrians' = peds
              /\ arrivals' = ra.arrivals
              /\ last_arrival_times' = ra.last_arrival_times
              /\ prev_positions' = ra.prev_positions
              /\ emitted' =
                    IF crossed
                    THEN Append(emitted,
                                [track_id |-> track_id, class_id |-> class_id,
                                 timestamp |-> timestamp,
                                 center_x |-> CenterX(bbox),
                                 seen_before |-> FALSE, prev_x |-> None])
                    ELSE emitted
    /\ UNCHANGED <<driver, recorded_arrivals, last_positions, fired,
                   last_seen, reuse, last_call, obs>>
    /\ UNCHANGED merging

NextRecorder == RecTick \/ SkipFrames \/ RecStep

RecorderSpec == Init /\ [][NextRecorder]_vars

\* ------------------------------ record_arrival called with any class
\* COCO classes passed to record_arrival: person, bicycle, car
CallClasses == {PERSON, PERSON + 1, 2}

CallBoxes == {Box(310, 420), Box(700, 420)}

\* a call of record_arrival at the current timestamp
RecordCall ==
    /\ Len(arrivals) < MaxRecords
    /\ \E track_id \in RecTracks, class_id \in CallClasses, bbox \in CallBoxes :
          LET ra == RecordArrival(arrivals, last_arrival_times,
                                  prev_positions, pedestrians, track_id,
                                  class_id, bbox, timestamp)
          IN  /\ arrivals' = ra.arrivals
              /\ last_arrival_times' = ra.last_arrival_times
              /\ prev_positions' = ra.prev_positions
              /\ emitted' =
                    IF Len(ra.arrivals) > Len(arrivals)
                    THEN Append(emitted,
                                [track_id |-> track_id, class_id |-> class_id,
                                 timestamp |-> timestamp,
                                 center_x |-> CenterX(bbox),
                                 seen_before |-> FALSE, prev_x |-> None])
                    ELSE emitted
              /\ last_call' = [op |-> "record_arrival",
                               track_id |-> track_id, class_id |-> class_id]
    /\ UNCHANGED <<driver, pedestrians, recorded_arrivals, last_positions,
                   fired, last_seen, reuse, obs>>
    /\ UNCHANGED merging

\* the clock moves on by one frame between calls
CallTick ==
    /\ FramesRead < MaxFrames
    /\ frame_count' = frame_count + 1
    /\ last_call' = NoCall
    /\ UNCHANGED <<pc, tracks, core, fired, emitted, last_seen, reuse, obs>>
    /\ UNCHANGED merging

NextArrival == CallTick \/ RecordCall

ArrivalSpec == Init /\ [][NextArrival]_vars

\* ------------------------------ update called as the clock moves on
\* a call of update at the current timestamp
HistUpdate ==
    /\ TotalSamples(pedestrians, NumTracks) < MaxSamples
    /\ \E track_id \in Tracks, x \in PedXs :
          /\ pedestrians' =
                PedUpdate(pedestrians, track_id, Box(x, 390), timestamp)
          /\ last_call' = [op |-> "update", track_id |-> track_id,
                           timestamp |-> timestamp]
    /\ UNCHANGED <<driver, recorded_arrivals, last_positions, arrivals,
                   last_arrival_times, prev_positions, fired, emitted,
                   last_seen, reuse, obs>>
    /\ UNCHANGED merging

NextHistory == CallTick \/ HistUpdate

HistorySpec == Init /\ [][NextHistory]_vars

\* ----------------------------- merge_team_data / merge_session_data
\* A table is a sequence of rows.  'Time (s)' and 'Inter-Arrival (s)' are in
\* tenths of a second, the one decimal of the arrival log; the ID and
\* Inter-Arrival a row brings from its file are stale values.
MergeTimes == {0, 5}
MergeEntities == {"Crossers", "EB Vehicles"}

FileRows ==
    [ID : {MaxRows + 4}, Time : MergeTimes, Entity : MergeEntities,
     InterArrival : {MaxRows + 6}]

\* four tables cut out of one sequence of rows
CutFiles(rows, c) ==
    <<SubSeq(rows, 1, c[1]), SubSeq(rows, c[1] + 1, c[2]),
      SubSeq(rows, c[2] + 1, c[3]), SubSeq(rows, c[3] + 1, Len(rows))>>

\* the four tables read by pd.read_csv: at most MaxRows rows in all
FileSets ==
    UNION {{CutFiles(rows, c) :
               rows \in [1..n -> FileRows],
               c \in {d \in [1..3 -> 0..n] : d[1] <= d[2] /\ d[2] <= d[3]}} :
           n \in 0..MaxRows}

\* pd.concat([df_wb, df_eb, df_crossers, df_posers], ignore_index=True)
Concat(fs) == fs[1] \o fs[2] \o fs[3] \o fs[4]

IsSortedByTime(t) ==
    \A i \in 1..(Len(t) - 1) : t[i].Time <= t[i + 1].Time

\* df.sort_values('Time (s)').reset_index(drop=True): the default sort is
\* not stable, rows of equal time come out in any order
SortValues(t) ==
    {s \in {[i \in 1..Len(t) |-> t[p[i]]] : p \in Permutations(1..Len(t))} :
        IsSortedByTime(s)}

\* mutant of RecalculateInterArrival: time since the row before, whatever
\* its entity
RecalculateAnyEntity(t) ==
    [i \in 1..Len(t) |->
        [t[i] EXCEPT !.InterArrival =
            IF i = 1 THEN 0 ELSE Round1(10 * (t[i].Time - t[i - 1].Time))]]

\* recalculate_inter_arrival on a table already sorted by time: the loop
\* over the rows with last_time per entity; round(x, 1) of a difference
\* taken in tenths
RecalculateInterArrival(t) ==
    [i \in 1..Len(t) |->
        LET before == {j \in 1..(i - 1) : t[j].Entity = t[i].Entity}
        IN  [t[i] EXCEPT !.InterArrival =
                IF before = {} THEN 0
                ELSE LET last == CHOOSE m \in before :
                                    \A j \in before : j <= m
                     IN  Round1(10 * (t[i].Time - t[last].Time))]]

\* combined['ID'] = range(1, len(combined) + 1)
Renumber(t) == [i \in 1..Len(t) |-> [t[i] EXCEPT !.ID = i]]

\* merge_team_data from 'Combining data' on: returns False without writing
\* when there is no row, else writes the recalculated table
MergeTeamData ==
    /\ merged = NotMerged
    /\ LET combined == Concat(files)
       IN  IF Len(combined) = 0
           THEN merged' = [returned |-> "False", output |-> <<>>]
           ELSE \E s1 \in SortValues(combined) :
                \E s2 \in SortValues(s1) :
                   merged' =
                      [returned |-> "True",
                       output |-> Renumber(RecalculateInterArrival(s2))]
    /\ UNCHANGED <<driver, core, history, files>>

\* the state before a merge: any four tables, nothing else has run
MergeInit ==
    /\ pc = "loop"
    /\ frame_count = 0
    /\ tracks = <<>>
    /\ pedestrians = EmptyDict
    /\ recorded_arrivals = {}
    /\ last_positions = EmptyDict
    /\ arrivals = <<>>
    /\ last_arrival_times = [e \in EntityTypes |-> None]
    /\ prev_positions = EmptyDict
    /\ fired = [t \in Tracks |-> 0]
    /\ emitted = <<>>
    /\ last_seen = EmptyDict
    /\ reuse = [t \in Tracks |-> [phase |-> "none", start |-> None]]
    /\ last_call = NoCall
    /\ obs = [t \in Tracks |-> <<>>]
    /\ files \in FileSets
    /\ merged = NotMerged

NextMerge == MergeTeamData

MergeSpec == MergeInit /\ [][NextMerge]_vars

\* ================================================================= claims
RecordsOf(track_id) ==
    {i \in 1..Len(emitted) : emitted[i].track_id = track_id}

IsPrefix(s, t) ==
    /\ Len(s) <= Len(t)
    /\ \A i \in 1..Len(s) : s[i] = t[i]

\* C1: in one run check_arrival returns crossed=True at most once per
\* track_id, and at most one ArrivalRecord is appended for a track_id.
C1_AtMostOneCrossing ==
    \A t \in Tracks :
        /\ fired[t] <= 1
        /\ Cardinality(RecordsOf(t)) <= 1

\* a recorded track went above the line and came down across it again
C1_Witness ==
    \E t \in Tracks :
        /\ reuse[t].phase = "again"
        /\ fired[t] = 1
        /\ Cardinality(RecordsOf(t)) = 1

\* C2: for a track not yet recorded, check_arrival fires exactly when the
\* track has a previous sample and previous bottom < line_y <= current
\* bottom; stated on the bottoms passed for a track since construction or
\* reset: call i fires iff no earlier call fired, i > 1 and
\* bottom[i-1] < line_y <= bottom[i].
C2_CrossingDirectionality ==
    \A t \in Tracks :
        \A i \in 1..Len(obs[t]) :
            obs[t][i].crossed <=>
                /\ i > 1
                /\ \A j \in 1..(i - 1) : ~obs[t][j].crossed
                /\ obs[t][i - 1].bottom < arrival_line
                /\ arrival_line <= obs[t][i].bottom

\* bottoms [350, 390, 420] fired exactly once, at the 390 -> 420 step
C2_Witness ==
    \E t \in Tracks :
        /\ Len(obs[t]) = 3
        /\ obs[t][1] = [bottom |-> 350, crossed |-> FALSE]
        /\ obs[t][2] = [bottom |-> 390, crossed |-> FALSE]
        /\ obs[t][3] = [bottom |-> 420, crossed |-> TRUE]

\* C3: the IDs of the arrivals log, in log order, are exactly 1..N.
C3_SequenceIntegrity ==
    \A i \in 1..Len(arrivals) : arrivals[i].ID = i

\* three records of three different categories are in the log
C3_Witness ==
    /\ Len(arrivals) = 3
    /\ Cardinality({arrivals[i].Entity : i \in 1..3}) = 3

SameBefore(i) == {j \in 1..(i - 1) : arrivals[j].Entity = arrivals[i].Entity}

Latest(S) == CHOOSE m \in S : \A j \in S : j <= m

\* C4: the inter-arrival of a record is its timestamp minus the timestamp of
\* the previous record of the same category (as rounded to one decimal by
\* the log), and 0.0 for the first record of a category; records of other
\* categories in between do not change it.
C4_InterArrivalPerCategory ==
    \A i \in 1..Len(arrivals) :
        arrivals[i].InterArrival =
            IF SameBefore(i) = {} THEN 0
            ELSE Round1(emitted[i].timestamp
                        - emitted[Latest(SameBefore(i))].timestamp)

\* two records of one category with a record of another category between
C4_Witness ==
    /\ Len(arrivals) = 3
    /\ arrivals[1].Entity = arrivals[3].Entity
    /\ arrivals[2].Entity # arrivals[1].Entity
    /\ emitted[1].timestamp < emitted[2].timestamp
    /\ emitted[2].timestamp < emitted[3].timestamp
    /\ arrivals[3].InterArrival > 0

\* variance of a list of integers as mean of squares minus squared mean,
\* compared with a limit: n * sum(x^2) - sum(x)^2 < limit * n^2
MeanSquareVarLess(xs, limit) ==
    LET n == Len(xs)
        S == SeqSum(xs)
        Q == SeqSum([i \in 1..n |-> xs[i] * xs[i]])
    IN  n * Q - S * S < limit * n * n

HistoryXs(h) == [i \in 1..Len(h.positions) |-> h.positions[i][1]]

\* C5: for a track with history, classify returns Poser iff duration > 8.0
\* and the variance of the recorded center_x values < 100 (0 with fewer than
\* two samples), Crosser otherwise.
C5_ClassificationRule ==
    (last_call.op = "classify" /\ last_call.track_id \in DOMAIN pedestrians)
        => LET h == pedestrians[last_call.track_id]
               long == last_call.timestamp - h.start_time > 800
               still == IF Len(h.positions) < 2 THEN TRUE
                        ELSE MeanSquareVarLess(HistoryXs(h), 100)
           IN  last_call.result = IF long /\ still THEN "Posers"
                                  ELSE "Crossers"

\* classify at a duration of exactly 8.0 s with variance below 100
C5_Witness ==
    /\ last_call.op = "classify"
    /\ last_call.track_id \in DOMAIN pedestrians
    /\ last_call.timestamp - pedestrians[last_call.track_id].start_time = 800
    /\ Len(pedestrians[last_call.track_id].positions) = 2
    /\ MeanSquareVarLess(HistoryXs(pedestrians[last_call.track_id]), 100)
    /\ last_call.result = "Crossers"

\* C6: classify_vehicle_direction returns EB if a previous center_x is stored
\* and center_x > previous, WB if stored and center_x <= previous; with no
\* previous, EB if center_x > frame_width / 2 and WB otherwise.
C6_DirectionContract ==
    last_call.op = "classify_vehicle_direction"
        => last_call.result =
              IF last_call.had_prev
              THEN (IF last_call.center_x > last_call.prev_x THEN "EB"
                    ELSE "WB")
              ELSE (IF last_call.center_x > frame_width \div 2 THEN "EB"
                    ELSE "WB")

\* no previous position and center_x exactly frame_width / 2 gives WB
C6_Witness ==
    /\ last_call.op = "classify_vehicle_direction"
    /\ ~last_call.had_prev
    /\ last_call.center_x * 2 = frame_width
    /\ last_call.result = "WB"

\* C7: the direction of a Vehicle record whose track was observed before
\* the crossing frame is EB if center_x at the crossing frame is greater than
\* center_x at the preceding observation, WB otherwise.
C7_DirectionFromMotion ==
    \A i \in 1..Len(arrivals) :
        (emitted[i].class_id \in VehicleClasses /\ emitted[i].seen_before)
            => arrivals[i].TypeDir =
                   (IF emitted[i].center_x > emitted[i].prev_x
                    THEN "EB" ELSE "WB")

\* C8 as stated: a track_id that produced an arrival, went missing, came
\* back and crossed the line top-to-bottom has a second ArrivalRecord.
C8_ReuseIsNewTrack ==
    \A t \in Tracks :
        reuse[t].phase = "crossed" => Cardinality(RecordsOf(t)) >= 2

\* C8 amended: a track_id that produced an arrival, went missing and came
\* back is still the same track: it stays recorded, it has exactly the one
\* ArrivalRecord even after crossing the line again, and its pedestrian
\* history keeps the start_time it had when it went missing.
C8_ReuseIsSameTrack ==
    \A t \in Tracks :
        reuse[t].phase \in {"gone", "above", "crossed"}
            => /\ t \in recorded_arrivals
               /\ fired[t] = 1
               /\ Cardinality(RecordsOf(t)) <= 1
               /\ reuse[t].start # None
                    => /\ t \in DOMAIN pedestrians
                       /\ pedestrians[t].start_time = reuse[t].start

\* a Person track fired, went missing, came back and crossed again
C8_Witness ==
    \E t \in Tracks :
        /\ reuse[t].phase = "crossed"
        /\ reuse[t].start # None
        /\ Cardinality(RecordsOf(t)) = 1
        /\ Len(pedestrians[t].positions) >= 3

\* C10: every step leaves the old log as a prefix of the new log and appends
\* at most one record.
C10_AppendOnly ==
    [][/\ IsPrefix(arrivals, arrivals')
       /\ Len(arrivals') <= Len(arrivals) + 1]_vars

\* the run is over and two records were appended, one after the other
C10_Witness ==
    /\ pc = "done"
    /\ Len(arrivals) = 2
    /\ emitted[1].timestamp < emitted[2].timestamp

\* the next track to be processed is confirmed and has a NaN coordinate
MalformedNext ==
    /\ tracks # <<>>
    /\ Head(tracks).confirmed
    /\ Len(Head(tracks).bbox) = 4
    /\ \E i \in 1..4 : Head(tracks).bbox[i] = NaN

\* C11: a track update whose bbox has NaN coordinates appends no record and
\* leaves the track's last position, the recorded set and the pedestrian
\* history as they were.
C11_MalformedInputSkipped ==
    [][(MalformedNext /\ tracks' = Tail(tracks))
          => /\ arrivals' = arrivals
             /\ recorded_arrivals' = recorded_arrivals
             /\ last_positions' = last_positions
             /\ pedestrians' = pedestrians]_vars

\* the next track to be processed is confirmed and its update raises
FailingNext ==
    /\ tracks # <<>>
    /\ Head(tracks).confirmed
    /\ Raises(Head(tracks).bbox)

\* C12: when the update of a track raises, the loop goes on with the
\* remaining tracks of the frame, and the run is never left without its
\* output log.
C12_FailureIsolation ==
    [][/\ (FailingNext /\ tracks' # tracks)
             => (pc' = "loop" /\ tracks' = Tail(tracks))
       /\ pc' # "failed"]_vars

\* C13: a check_arrival call, for any track and any bbox, removes no
\* track_id from the detector's recorded set; only reset() does.
C13_RecordedIsTerminal ==
    [][last_call'.op # "reset"
          => recorded_arrivals \subseteq recorded_arrivals']_vars

\* a recorded track was passed to check_arrival again, above the line
C13_Witness ==
    /\ last_call.op = "check_arrival"
    /\ last_call.track_id \in recorded_arrivals
    /\ last_call.bottom < arrival_line
    /\ Len(obs[last_call.track_id]) = 3

\* crossings of a track since construction or the latest reset
CrossingsOf(t) == {i \in 1..Len(obs[t]) : obs[t][i].crossed}

\* C14: after reset() the recorded set and the last-position table are
\* empty as after construction; from then on every track, recorded before
\* the reset or not, is unseen: its first observation does not fire and
\* stores its bottom, it is recorded only by a crossing made after the
\* reset, and such a crossing fires by the same rule as for a new track.
C14_ResetRestoresInitial ==
    /\ last_call.op = "reset"
          => /\ recorded_arrivals = {}
             /\ last_positions = EmptyDict
    /\ \A t \in Tracks :
          /\ t \in recorded_arrivals <=> CrossingsOf(t) # {}
          /\ t \in DOMAIN last_positions <=> obs[t] # <<>>
          /\ obs[t] # <<>> => ~obs[t][1].crossed
          /\ (Len(obs[t]) >= 2 /\ obs[t][1].bottom < arrival_line
                               /\ obs[t][2].bottom >= arrival_line)
                => obs[t][2].crossed

\* a track fired, the detector was reset, and the track fired again
C14_Witness ==
    \E t \in Tracks :
        /\ fired[t] = 2
        /\ Cardinality(CrossingsOf(t)) = 1
        /\ last_call.op = "check_arrival"
        /\ last_call.track_id = t
        /\ last_call.crossed

\* Type/Dir of a category
TypeDirOf(entity) ==
    CASE entity = "EB Vehicles" -> "EB"
      [] entity = "WB Vehicles" -> "WB"
      [] entity = "Crossers" -> "Crosser"
      [] entity = "Posers" -> "Poser"

\* C15: every record's Entity is one of the four categories and its Type/Dir
\* is the one of that category; a record made from a vehicle class is EB or
\* WB Vehicles, one made from a Person is Crossers or Posers; the keys of the
\* last-arrival-time table are the four categories.
C15_EntityVocabulary ==
    /\ \A i \in 1..Len(arrivals) :
          /\ arrivals[i].Entity \in EntityTypes
          /\ arrivals[i].TypeDir = TypeDirOf(arrivals[i].Entity)
          /\ emitted[i].class_id \in VehicleClasses
                => arrivals[i].Entity \in {"EB Vehicles", "WB Vehicles"}
          /\ emitted[i].class_id = PERSON
                => arrivals[i].Entity \in {"Crossers", "Posers"}
    /\ DOMAIN last_arrival_times = EntityTypes

\* a Poser, an EB vehicle and a WB vehicle are in the log
C15_Witness ==
    /\ Len(arrivals) = 3
    /\ {arrivals[i].Entity : i \in 1..3}
          = {"Posers", "EB Vehicles", "WB Vehicles"}

C17_UnknownTrackIsCrosser ==
    [][(last_call'.op = "classify"
           /\ last_call'.track_id \notin DOMAIN pedestrians)
          => /\ last_call'.result = "Crossers"
             /\ pedestrians' = pedestrians
             /\ last_call'.track_id \notin DOMAIN pedestrians']_vars

\* classify of a track without history, late, while another track has one
C17_Witness ==
    /\ last_call.op = "classify"
    /\ last_call.track_id \notin DOMAIN pedestrians
    /\ last_call.timestamp > PoserDuration
    /\ DOMAIN pedestrians # {}
    /\ last_call.result = "Crossers"

\* C18: the first check_arrival call for a track_id returns (False, None)
\* whatever the bbox, also with its bottom at or below the line, and stores
\* the bottom as the track's last position.
C18_FirstObservationNeverFires ==
    (last_call.op = "check_arrival" /\ Len(obs[last_call.track_id]) = 1)
        => /\ ~last_call.crossed
           /\ last_call.timestamp = None
           /\ last_call.track_id \notin recorded_arrivals
           /\ last_call.track_id \in DOMAIN last_positions
           /\ last_positions[last_call.track_id] = last_call.bottom

\* the first call for a track has its bottom below the line
C18_Witness ==
    /\ last_call.op = "check_arrival"
    /\ Len(obs[last_call.track_id]) = 1
    /\ last_call.bottom > arrival_line
    /\ ~last_call.crossed

\* C19: a check_arrival call for a recorded track returns (False, None) and
\* changes neither the recorded set nor the last-position table; the stored
\* position of a recorded track is the one seen just before its crossing.
C19_RecordedCheckedFirst ==
    [][/\ (last_call'.op = "check_arrival"
              /\ last_call'.track_id \in recorded_arrivals)
          => /\ ~last_call'.crossed
             /\ last_call'.timestamp = None
             /\ recorded_arrivals' = recorded_arrivals
             /\ last_positions' = last_positions
       /\ \A t \in recorded_arrivals' :
             \E i \in 2..Len(obs'[t]) :
                /\ obs'[t][i].crossed
                /\ last_positions'[t] = obs'[t][i - 1].bottom]_vars

\* a track fired at its second call and was seen at another height after
C19_Witness ==
    \E t \in recorded_arrivals :
        /\ Len(obs[t]) = 3
        /\ obs[t][2].crossed
        /\ obs[t][3].bottom # obs[t][2].bottom
        /\ obs[t][3].bottom # obs[t][1].bottom
        /\ last_positions[t] = obs[t][1].bottom

\* the entry of key t (or its absence) is the same in dicts d and e
SameEntry(d, e, t) ==
    /\ t \in DOMAIN d <=> t \in DOMAIN e
    /\ t \in DOMAIN d => d[t] = e[t]

\* C20: processing a track whose crossing check does not fire leaves the
\* arrivals log, the last-arrival-time table and prev_positions unchanged;
\* it changes at most that track's last position and, for a Person, that
\* track's history.
C20_NoFireNoArrival ==
    [][(tracks # <<>> /\ tracks' = Tail(tracks) /\ fired' = fired)
          => LET track == Head(tracks)
             IN  /\ arrivals' = arrivals
                 /\ last_arrival_times' = last_arrival_times
                 /\ prev_positions' = prev_positions
                 /\ recorded_arrivals' = recorded_arrivals
                 /\ \A u \in Tracks \ {track.track_id} :
                       /\ SameEntry(last_positions, last_positions', u)
                       /\ SameEntry(pedestrians, pedestrians', u)
                 /\ track.class_id # PERSON
                       => pedestrians' = pedestrians]_vars

\* after a vehicle's arrival a Person track was first seen, without firing
C20_Witness ==
    \E t, u \in Tracks :
        /\ tracks = <<>>
        /\ Len(arrivals) = 1
        /\ emitted[1].track_id = t
        /\ t \in DOMAIN prev_positions
        /\ u # t
        /\ fired[u] = 0
        /\ u \in DOMAIN last_positions
        /\ u \in DOMAIN pedestrians
        /\ pedestrians[u].start_time > emitted[1].timestamp

\* C21: record_arrival called with a class that is neither Person nor a
\* vehicle class appends nothing and leaves the arrivals log, the
\* last-arrival-time table and prev_positions unchanged; the IDs of the log
\* stay 1..N across such calls.
C21_OtherClassesDiscarded ==
    [][/\ (last_call'.op = "record_arrival"
              /\ last_call'.class_id \notin VehicleClasses \cup {PERSON})
          => /\ arrivals' = arrivals
             /\ last_arrival_times' = last_arrival_times
             /\ prev_positions' = prev_positions
       /\ \A i \in 1..Len(arrivals') : arrivals'[i].ID = i]_vars

\* a call with another class came between the first record and a later
\* tick: the log, the table and prev_positions hold the first record only
C21_Witness ==
    /\ last_call.op = "record_arrival"
    /\ last_call.class_id \notin VehicleClasses \cup {PERSON}
    /\ Len(arrivals) = 1
    /\ emitted[1].class_id \in VehicleClasses
    /\ emitted[1].timestamp < timestamp
    /\ last_arrival_times[arrivals[1].Entity] = emitted[1].timestamp
    /\ DOMAIN prev_positions = {emitted[1].track_id}

\* C22: a pedestrian history, once created, is never removed; its positions
\* are never empty and every step keeps them as a prefix of the new
\* positions; an update call appends exactly one sample, also one equal to
\* the latest; start_time is the timestamp of the first update, never
\* changes, and as the clock does not go back it is <= the timestamp of
\* every later update.
C22_PedestrianHistory ==
    [][/\ \A t \in DOMAIN pedestrians :
             /\ t \in DOMAIN pedestrians'
             /\ pedestrians'[t].start_time = pedestrians[t].start_time
             /\ IsPrefix(pedestrians[t].positions, pedestrians'[t].positions)
       /\ \A t \in DOMAIN pedestrians' :
             /\ Len(pedestrians'[t].positions) >= 1
             /\ pedestrians'[t].start_time <= timestamp'
       /\ (last_call'.op = "update" /\ last_call' # last_call)
             => LET t == last_call'.track_id
                IN  /\ t \in DOMAIN pedestrians'
                    /\ pedestrians'[t].start_time <= last_call'.timestamp
                    /\ IF t \in DOMAIN pedestrians
                       THEN Len(pedestrians'[t].positions)
                               = Len(pedestrians[t].positions) + 1
                       ELSE /\ Len(pedestrians'[t].positions) = 1
                            /\ pedestrians'[t].start_time
                                  = last_call'.timestamp]_vars

\* a history of three samples, the last two equal, updated after its start
C22_Witness ==
    \E t \in DOMAIN pedestrians :
        /\ Len(pedestrians[t].positions) = 3
        /\ pedestrians[t].positions[2] = pedestrians[t].positions[3]
        /\ last_call.op = "update"
        /\ last_call.track_id = t
        /\ pedestrians[t].start_time < last_call.timestamp

\* C23: processing a confirmed track labelled Person appends its sample to
\* (or creates) the track's history, whether or not its crossing fires, and
\* a Person record's category is the classification of the history that
\* already holds the sample of the crossing frame; processing a track with a
\* vehicle label leaves every pedestrian history unchanged.
C23_HistoryBeforeCrossingCheck ==
    [][(tracks # <<>> /\ tracks' = Tail(tracks) /\ Head(tracks).confirmed)
          => LET track == Head(tracks)
                 t == track.track_id
                 sample == <<CenterX(track.bbox), CenterY(track.bbox)>>
             IN  IF track.class_id = PERSON
                 THEN /\ t \in DOMAIN pedestrians'
                      /\ LET h == pedestrians'[t]
                             n == Len(h.positions)
                         IN  /\ n = IF t \in DOMAIN pedestrians
                                    THEN Len(pedestrians[t].positions) + 1
                                    ELSE 1
                             /\ h.positions[n] = sample
                             /\ Len(arrivals') > Len(arrivals)
                                   => arrivals'[Len(arrivals')].Entity =
                                         IF /\ timestamp - h.start_time
                                                  > PoserDuration
                                            /\ MeanSquareVarLess(HistoryXs(h),
                                                                 PoserVariance)
                                         THEN "Posers" ELSE "Crossers"
                 ELSE pedestrians' = pedestrians]_vars

\* a Person stood for more than 8 s and then crossed far to the right: with
\* the crossing sample in the history the record is a Crosser
C23_Witness ==
    /\ Len(arrivals) = 1
    /\ emitted[1].class_id = PERSON
    /\ arrivals[1].Entity = "Crossers"
    /\ LET h == pedestrians[emitted[1].track_id]
       IN  /\ Len(h.positions) = 2
           /\ emitted[1].timestamp - h.start_time > PoserDuration
           /\ h.positions[2][1] = emitted[1].center_x
           /\ h.positions[1][1] # h.positions[2][1]

\* records of a category in a log
OfEntity(log, e) == {i \in 1..Len(log) : log[i].Entity = e}

\* C24: for each category the table entry is None iff the log has no record
\* of the category, and otherwise it is the timestamp at which the latest
\* record of the category was emitted (the record's Time (s) is its rounding
\* to one decimal); a step changes the table only if it appends a record,
\* and then only at the category of that record.
C24_LastArrivalTable ==
    [][/\ \A e \in EntityTypes :
             LET S == OfEntity(arrivals', e)
             IN  IF S = {}
                 THEN last_arrival_times'[e] = None
                 ELSE /\ last_arrival_times'[e] # None
                      /\ last_arrival_times'[e] = emitted'[Latest(S)].timestamp
                      /\ Round1(last_arrival_times'[e])
                            = arrivals'[Latest(S)].Time
       /\ last_arrival_times' # last_arrival_times
             => /\ Len(arrivals') = Len(arrivals) + 1
                /\ \A e \in EntityTypes :
                      e # arrivals'[Len(arrivals')].Entity
                         => last_arrival_times'[e] = last_arrival_times[e]]_vars

\* two records of one category with one of another category between them;
\* the table holds the times of the third and the second record
C24_Witness ==
    /\ Len(arrivals) = 3
    /\ arrivals[1].Entity = arrivals[3].Entity
    /\ arrivals[2].Entity # arrivals[1].Entity
    /\ emitted[1].timestamp < emitted[3].timestamp
    /\ last_arrival_times[arrivals[3].Entity] = emitted[3].timestamp
    /\ last_arrival_times[arrivals[2].Entity] = emitted[2].timestamp
    /\ last_arrival_times["Posers"] = None

SameEntityAbove(t, i) == {j \in 1..(i - 1) : t[j].Entity = t[i].Entity}

\* how often a row with this time and entity occurs in a table
Occurrences(t, time, entity) ==
    Cardinality({i \in 1..Len(t) :
                    t[i].Time = time /\ t[i].Entity = entity})

\* C26: a merge of four tables that are not all empty returns True and
\* writes the rows of the four tables sorted by non-decreasing Time, with
\* IDs 1..N, Inter-Arrival 0.0 in the first row of each Entity and, in every
\* other row, its Time minus the Time of the previous row of the same
\* Entity; a merge of four empty tables returns False and writes nothing.
C26_MergeRecalculation ==
    merged # NotMerged
       => LET out == merged.output
              all == Concat(files)
          IN  IF Len(all) = 0
              THEN merged.returned = "False" /\ out = <<>>
              ELSE /\ merged.returned = "True"
                   /\ Len(out) = Len(all)
                   /\ \A time \in MergeTimes, entity \in MergeEntities :
                         Occurrences(out, time, entity)
                            = Occurrences(all, time, entity)
                   /\ \A i \in 1..Len(out) :
                         /\ out[i].ID = i
                         /\ i > 1 => out[i - 1].Time <= out[i].Time
                         /\ out[i].InterArrival =
                               IF SameEntityAbove(out, i) = {} THEN 0
                               ELSE out[i].Time
                                    - out[Latest(SameEntityAbove(out, i))].Time

\* three rows from three files, given out of time order, two of one entity
\* with a row of the other entity between them in the output
C26_Witness ==
    /\ merged.returned = "True"
    /\ Len(files[1]) = 1 /\ Len(files[2]) = 1 /\ Len(files[4]) = 1
    /\ files[1][1].Time > files[4][1].Time
    /\ Len(merged.output) = 3
    /\ merged.output[1].Entity = merged.output[3].Entity
    /\ merged.output[2].Entity # merged.output[1].Entity
    /\ merged.output[3].InterArrival = 5

\* C27: every record of the log that is not the first of its category has
\* an Inter-Arrival equal to its own Time minus the Time of the previous
\* record of the same Entity, so that recalculate_inter_arrival applied to
\* the log leaves the Inter-Arrival column as it is.
C27_InterArrivalAgreesWithTimes ==
    /\ \A i \in 1..Len(arrivals) :
          SameEntityAbove(arrivals, i) # {}
             => arrivals[i].InterArrival =
                   arrivals[i].Time
                   - arrivals[Latest(SameEntityAbove(arrivals, i))].Time
    /\ RecalculateInterArrival(arrivals) = arrivals

\* C28: the log has at most as many records as the detector has recorded
\* tracks, a track has no record before it is recorded and at most one
\* after; the step in which a track is recorded appends exactly one record,
\* of that track, when the track carries the Person or a vehicle class and
\* none when it carries another class; no other step appends a record, so a
\* track recorded under another class never has one, whatever its class
\* becomes.
C28_FiredCrossingsAccounted ==
    /\ [](/\ Len(arrivals) <= Cardinality(recorded_arrivals)
          /\ Len(arrivals) = Len(emitted)
          /\ \A t \in Tracks :
                /\ Cardinality(RecordsOf(t)) <= 1
                /\ t \notin recorded_arrivals => RecordsOf(t) = {})
    /\ [][IF recorded_arrivals' = recorded_arrivals
          THEN arrivals' = arrivals /\ emitted' = emitted
          ELSE /\ tracks # <<>>
               /\ recorded_arrivals' =
                     recorded_arrivals \cup {Head(tracks).track_id}
               /\ IF Head(tracks).class_id \in VehicleClasses \cup {PERSON}
                  THEN /\ Len(arrivals') = Len(arrivals) + 1
                       /\ Len(emitted') = Len(emitted) + 1
                       /\ emitted'[Len(emitted')].track_id
                             = Head(tracks).track_id
                  ELSE arrivals' = arrivals /\ emitted' = emitted]_vars

\* track 1 crossed under another class, then came back above the line and
\* crossed it again labelled Person (its pedestrian history starts after
\* the crossing that fired): it is recorded and the log is empty
C28_Witness ==
    /\ recorded_arrivals = {1}
    /\ fired[1] = 1
    /\ arrivals = <<>>
    /\ tracks = <<>>
    /\ reuse[1].phase = "again"
    /\ 1 \in DOMAIN pedestrians
    /\ Len(pedestrians[1].positions) = 2
    /\ pedestrians[1].start_time = timestamp - FrameStep
    /\ pedestrians[1].first_bbox = Box(300, 390)

\* the tracks of the Vehicle records of the log
VehicleRecorded ==
    {emitted[i].track_id :
        i \in {j \in 1..Len(emitted) : emitted[j].class_id \in VehicleClasses}}

\* C29: the keys of prev_positions are exactly the tracks that have a
\* Vehicle record, all of them recorded tracks of the detector, each with
\* the center_x of its crossing; a step changes prev_positions only when it
\* processes a vehicle track whose crossing fires in that step.
C29_DirectionTableAtArrival ==
    /\ [](/\ DOMAIN prev_positions = VehicleRecorded
          /\ DOMAIN prev_positions \subseteq recorded_arrivals
          /\ \A i \in 1..Len(emitted) :
                emitted[i].class_id \in VehicleClasses
                   => prev_positions[emitted[i].track_id]
                         = emitted[i].center_x)
    /\ [][prev_positions' # prev_positions
             => /\ tracks # <<>>
                /\ Head(tracks).class_id \in VehicleClasses
                /\ Head(tracks).track_id \notin recorded_arrivals
                /\ Head(tracks).track_id \in recorded_arrivals'
                /\ Len(arrivals') = Len(arrivals) + 1]_vars

\* track 1 crossed as a vehicle and track 2, after it, as a pedestrian:
\* track 1 is the only key of prev_positions
C29_Witness ==
    /\ recorded_arrivals = {1, 2}
    /\ Len(emitted) = 2
    /\ emitted[1].track_id = 1 /\ emitted[1].class_id \in VehicleClasses
    /\ emitted[2].track_id = 2 /\ emitted[2].class_id = PERSON
    /\ DOMAIN prev_positions = {1}
    /\ tracks = <<>>

\* C30: with the timestamps of process_video, which never decrease, the
\* Time values of the log are non-decreasing in ID order and no
\* Inter-Arrival is negative; a record that follows, in the log, one of its
\* category emitted in the same frame has Inter-Arrival 0.0.
C30_TimeMonotonicity ==
    /\ Len(emitted) = Len(arrivals)
    /\ \A i \in 1..Len(arrivals) :
          /\ i > 1 => /\ emitted[i - 1].timestamp <= emitted[i].timestamp
                      /\ arrivals[i - 1].Time <= arrivals[i].Time
          /\ arrivals[i].InterArrival >= 0
          /\ \A j \in 1..(i - 1) :
                (/\ arrivals[j].Entity = arrivals[i].Entity
                 /\ emitted[j].timestamp = emitted[i].timestamp)
                   => arrivals[i].InterArrival = 0

\* after a stretch of empty road two vehicles crossed in one frame into the
\* same category: both records have the Time of that frame, the second has
\* Inter-Arrival 0.0
C30_Witness ==
    /\ Len(arrivals) = 2
    /\ BlocksSkipped = 1
    /\ arrivals[1].Entity = arrivals[2].Entity
    /\ emitted[1].timestamp = emitted[2].timestamp
    /\ arrivals[1].Time = Round1(timestamp)
    /\ arrivals[2].Time = arrivals[1].Time
    /\ arrivals[2].InterArrival = 0

====
